---- MODULE Spec2Model ----
(***************************************************************************)
(* Model of trakt_sync.py: one invocation of the script is a process that  *)
(* loads sync_settings.ini once, checks the user allow-list, dispatches on *)
(* the content type and then talks to the remote service.  The settings    *)
(* file is the only state shared between invocations.                      *)
(*                                                                         *)
(* A ConfigParser and a JSON object are modelled as functions whose        *)
(* DOMAIN is the set of keys present: a lookup of a key outside the DOMAIN *)
(* is the NoOptionError / KeyError of the code.  Every uncaught Python     *)
(* exception ends the process with exit code 1, as sys.exit(1) does.       *)
(***************************************************************************)
EXTENDS Integers, Sequences, FiniteSets, TLC

\* ------------------------------------------------------------------ bounds
MaxInvocations == 2    \* invocations started in one behaviour
MaxPending == 1        \* "not yet authorized" answers the remote has in store
MaxResp == 2           \* distinct token responses the remote can give

Procs == {1, 2}

\* ------------------------------------------------------------- dictionaries
\* dict[k] = v, as config.set(section, k, v) or d[k] = v
Set(d, k, v) == [x \in (DOMAIN d) \cup {k} |-> IF x = k THEN v ELSE d[x]]

Has(d, k) == k \in DOMAIN d

EmptyDict == <<>>

\* -------------------------------------------------- str(), split(), the list
Digits == <<"0", "1", "2", "3", "4", "5", "6", "7", "8", "9">>

RECURSIVE NatStr(_)
NatStr(n) ==
    IF n < 10 THEN <<Digits[n + 1]>>
    ELSE NatStr(n \div 10) \o <<Digits[(n % 10) + 1]>>

\* str(user_id) of an int: decimal digits, a leading "-" when negative
Str(n) == IF n < 0 THEN <<"-">> \o NatStr(0 - n) ELSE NatStr(n)

RECURSIVE Split(_, _)
\* s.split(sep) for a one-character separator: no stripping, keeps empty pieces
Split(s, sep) ==
    IF \E i \in 1..Len(s) : s[i] = sep
    THEN LET i == CHOOSE i \in 1..Len(s) :
                     s[i] = sep /\ \A j \in 1..(i - 1) : s[j] # sep
         IN  <<SubSeq(s, 1, i - 1)>> \o Split(SubSeq(s, i + 1, Len(s)), sep)
    ELSE <<s>>

Range(s) == {s[i] : i \in 1..Len(s)}

\* line 108: str(user_id) in user_ids.split(',')
InAllowList(user_id, user_ids) == Str(user_id) \in Range(Split(user_ids, ","))

\* ------------------------------------------------------------------ tokens
AT(k) == <<"at", k>>
RT(k) == <<"rt", k>>

\* the token pair of remote response k (k = 0: put there by the operator)
Pair(k) == [access_token |-> AT(k), refresh_token |-> RT(k)]

\* ------------------------------------------------- inputs and remote answers
UserIds == {-1, 1, 2}                    \* --userId (argparse type=int)
ContentTypes == {"trakt_authenticate", "trakt_refresh", "movie", "episode", "music"}
ImdbId == "tt7"                          \* --imdbId
TvdbId == 71                             \* --tvdbId
SeasonNum == 3                           \* --season
EpisodeNum == 4                          \* --episode

\* values of [Plex] user_ids as ConfigParser returns them (outer blanks stripped)
UserIdsValues == { <<"1", ",", "2">>, <<"1", ",", " ", "2">> }

\* the [Trakt] options of a complete settings file
TraktOptions ==
    [client_id |-> "cid", client_secret |-> "sec",
     access_token |-> AT(0), refresh_token |-> RT(0)]

Restrict(d, K) == [k \in K |-> d[k]]

\* settings files the operator can have prepared: any option may be left out
InitialFiles ==
    LET trakt == { Restrict(TraktOptions, K) : K \in SUBSET DOMAIN TraktOptions }
    IN  trakt \cup { Set(t, "user_ids", u) : t \in trakt, u \in UserIdsValues }

\* JSON bodies of the token endpoints (device/token, oauth/token)
TokenBodies ==
    { Pair(k) : k \in 1..MaxResp }                            \* both tokens
    \cup { [access_token |-> AT(k)] : k \in 1..MaxResp }      \* refresh_token missing
    \cup { [error |-> "invalid_grant"] }                      \* access_token missing

\* answers of oauth/device/token once the operator has (or has not) authorized
FinalPollResponses ==
    { [status |-> 200, body |-> b] : b \in TokenBodies }
    \cup { [status |-> 410, body |-> EmptyDict], [status |-> 201, body |-> Pair(1)] }

PendingResponse == [status |-> 400, body |-> EmptyDict]

\* what oauth/device/token has in store for an invocation: `pending` answers
\* "not yet authorized", then the answer `final`; only trakt_authenticate polls
PollScripts(contentType) ==
    IF contentType = "trakt_authenticate"
    THEN [pending : 0..MaxPending, final : FinalPollResponses]
    ELSE { [pending |-> 0, final |-> [status |-> 410, body |-> EmptyDict]] }

\* answers of oauth/token (the status is never read by the code)
RefreshResponses ==
    { [status |-> 200, body |-> b] : b \in TokenBodies }
    \cup { [status |-> 401, body |-> [error |-> "invalid_grant"]] }

\* answers of oauth/device/code
DeviceCodeResponses ==
    { [verification_url |-> "url", user_code |-> "uc", device_code |-> "dc"],
      [verification_url |-> "url", user_code |-> "uc"],
      [error |-> "invalid_client"] }

Movie1 == [title |-> "X", year |-> 2000,
           ids |-> [trakt |-> 1, slug |-> "x", imdb |-> "ttX", tmdb |-> 2]]
Movie2 == [title |-> "Y", year |-> 1999,
           ids |-> [trakt |-> 5, slug |-> "y", imdb |-> "ttY", tmdb |-> 6]]
MovieNoYear == [title |-> "Z", ids |-> [trakt |-> 7, slug |-> "z", imdb |-> "ttZ", tmdb |-> 8]]

\* answers of search/imdb/<id>?type=movie: a JSON list
MovieSearchResponses ==
    { <<[type |-> "movie", movie |-> m]>> : m \in {Movie1, Movie2, MovieNoYear} }
    \cup { <<>> }

\* answers of search/tvdb/<id>?type=show: a JSON list
ShowSearchResponses ==
    { <<[type |-> "show", show |-> [title |-> "S", year |-> 2010, ids |-> [slug |-> sl]]]>> :
        sl \in {"show-a", "show-b"} }
    \cup { <<>> }

Episode1 == [season |-> 3, number |-> 4, title |-> "E",
             ids |-> [trakt |-> 11, tvdb |-> 12, imdb |-> "ttE", tmdb |-> 14]]
Episode2 == [season |-> 3, number |-> 4, title |-> "F",
             ids |-> [trakt |-> 21, tvdb |-> 22, imdb |-> "ttF", tmdb |-> 24]]

\* answers of shows/<slug>/seasons/<s>/episodes/<e>: a JSON object
EpisodeResponses == { Episode1, Episode2, [error |-> "not found"] }

\* statuses of sync/history (never read by the code)
HistoryStatuses == {201, 401}

\* datetime.datetime.utcnow()
Clock == { [year |-> 2026, month |-> 11, day |-> 2, hour |-> 5, minute |-> 28,
            second |-> 7, microsecond |-> 123456] }

\* what the file system does to open(path, 'w') followed by config.write(f)
FsOutcomes == {"ok", "open_fails", "write_fails"}

\* ------------------------------------------------------------------- state
VARIABLES
    disk,         \* the settings file: [exists, rec]
    invocations,  \* number of invocations started so far
    pc,           \* per process: the function it is about to run
    opts,         \* per process: the parsed command line
    config,       \* per process: the module-level ConfigParser
    self,         \* per process: the attributes of the Trakt object
    frame,        \* per process: locals that live across remote calls
    env,          \* per process: what oauth/device/token has in store
    trace,        \* per process: loads, remote calls, prompts, writes, messages
    exitcode      \* per process: -1 while running, else the exit code

vars == <<disk, invocations, pc, opts, config, self, frame, env, trace, exitcode>>

\* one entry of a process's trace
Ev(op, what, req, resp) == [op |-> op, what |-> what, req |-> req, resp |-> resp]

Call(api, req, resp) == Ev("call", api, req, resp)
Prompt == Ev("prompt", "input", "-", "-")
Console(msg) == Ev("print", msg, "-", "-")

Init ==
    /\ disk \in { [exists |-> FALSE, rec |-> EmptyDict] }
                \cup { [exists |-> TRUE, rec |-> f] : f \in InitialFiles }
    /\ invocations = 0
    /\ pc = [p \in Procs |-> "idle"]
    /\ opts = [p \in Procs |-> EmptyDict]
    /\ config = [p \in Procs |-> EmptyDict]
    /\ self = [p \in Procs |-> EmptyDict]
    /\ frame = [p \in Procs |-> EmptyDict]
    /\ env = [p \in Procs |-> EmptyDict]
    /\ trace = [p \in Procs |-> <<>>]
    /\ exitcode = [p \in Procs |-> -1]

\* ------------------------------------------------------------ process exit
\* sys.exit(code), an uncaught exception (code 1) or the end of the script (0)
Exit(p, code, events) ==
    /\ pc' = [pc EXCEPT ![p] = "exited"]
    /\ exitcode' = [exitcode EXCEPT ![p] = code]
    /\ trace' = [trace EXCEPT ![p] = @ \o events]

\* the process goes on with function next
Goto(p, next, events) ==
    /\ pc' = [pc EXCEPT ![p] = next]
    /\ trace' = [trace EXCEPT ![p] = @ \o events]
    /\ UNCHANGED exitcode

\* --------------------------------------------------- lines 76-82 and 298-319
\* the other invocations in progress
Running(p) == {q \in Procs \ {p} : pc[q] \notin {"idle", "exited"}}

\* a new invocation: the settings file is read, the command line parsed
Invoke(p, users, types) ==
    /\ pc[p] \in {"idle", "exited"}
    /\ invocations < MaxInvocations
    /\ invocations' = invocations + 1
    /\ \E uid \in users, ct \in types :
          \E script \in PollScripts(ct) :
             /\ opts' = [opts EXCEPT ![p] =
                    [userId |-> uid, contentType |-> ct, imdbId |-> ImdbId,
                     tvdbId |-> TvdbId, season |-> SeasonNum, episode |-> EpisodeNum]]
             /\ env' = [env EXCEPT ![p] =
                    [pending |-> script.pending, final |-> script.final]]
    /\ self' = [self EXCEPT ![p] = EmptyDict]
    /\ frame' = [frame EXCEPT ![p] = EmptyDict]
    /\ exitcode' = [exitcode EXCEPT ![p] = IF disk.exists THEN -1 ELSE 1]
    /\ IF disk.exists
       THEN /\ config' = [config EXCEPT ![p] = disk.rec]
            /\ trace' = [trace EXCEPT ![p] =
                   <<Ev("load", "-", disk.rec,
                        [seq |-> invocations + 1, others |-> Running(p)])>>]
            /\ pc' = [pc EXCEPT ![p] = "sync_for_user"]
       ELSE /\ config' = [config EXCEPT ![p] = EmptyDict]
            /\ trace' = [trace EXCEPT ![p] = <<Console("ERROR: not found")>>]
            /\ pc' = [pc EXCEPT ![p] = "exited"]
    /\ UNCHANGED disk

\* an invocation with any of the user ids and content types
Start(p) == Invoke(p, UserIds, ContentTypes)

\* ----------------------------------------------------------- lines 100-108
\* sync_for_user with the split forgotten: str(user_id) in user_ids
sync_for_user_substring(user_id, cfg) ==
    \E i \in 1..Len(cfg["user_ids"]) :
        /\ i + Len(Str(user_id)) - 1 <= Len(cfg["user_ids"])
        /\ SubSeq(cfg["user_ids"], i, i + Len(Str(user_id)) - 1) = Str(user_id)

\* sync_for_user(user_id), given that user_ids is configured
sync_for_user(user_id, cfg) == InAllowList(user_id, cfg["user_ids"])

\* the sentinel tested before the allow-list is looked up
UserCheck_sentinelFirst(user_id, cfg) ==
    IF user_id = -1 THEN "pass"
    ELSE IF ~Has(cfg, "user_ids") THEN "missing"
         ELSE IF ~sync_for_user(user_id, cfg) THEN "reject" ELSE "pass"

\* line 321: sync_for_user(opts.userId) is evaluated first, and exits at
\* lines 104-106 when user_ids is missing; then the sentinel is tested
UserCheck(user_id, cfg) ==
    IF ~Has(cfg, "user_ids") THEN "missing"
    ELSE IF ~sync_for_user(user_id, cfg) /\ ~(user_id = -1) THEN "reject"
         ELSE "pass"

\* lines 321-323, with the lookup of lines 102-106
CheckUser(p) ==
    /\ pc[p] = "sync_for_user"
    /\ IF UserCheck(opts[p].userId, config[p]) = "missing"
       THEN Exit(p, 1, <<Console("ERROR: missing user_ids")>>)
       ELSE IF UserCheck(opts[p].userId, config[p]) = "reject"
            THEN Exit(p, 0, <<Console("We will not sync for this user")>>)
            ELSE Goto(p, "dispatch", <<>>)
    /\ UNCHANGED <<disk, invocations, opts, config, self, frame, env>>

\* ----------------------------------------------------------- lines 112-132
\* Trakt.__init__ reading client_id with a fallback instead of failing
TraktInit_fallback(type, id, season_num, episode_num, cfg) ==
    [attrs |-> [type |-> type, imdb_id |-> id, tvdb_id |-> id,
                season_num |-> season_num, episode_num |-> episode_num,
                client_id |-> IF Has(cfg, "client_id") THEN cfg["client_id"] ELSE "",
                client_secret |-> IF Has(cfg, "client_secret")
                                  THEN cfg["client_secret"] ELSE ""],
     missing |-> ""]

\* Trakt.__init__ validating the tokens eagerly as well
TraktInit_eager(type, id, season_num, episode_num, cfg) ==
    IF ~Has(cfg, "client_id")
    THEN [attrs |-> EmptyDict, missing |-> "ERROR: missing client_id"]
    ELSE IF ~Has(cfg, "client_secret")
         THEN [attrs |-> EmptyDict, missing |-> "ERROR: missing client_secret"]
         ELSE IF ~Has(cfg, "access_token")
              THEN [attrs |-> EmptyDict, missing |-> "ERROR: missing access_token"]
              ELSE [attrs |-> [type |-> type, imdb_id |-> id, tvdb_id |-> id,
                               season_num |-> season_num, episode_num |-> episode_num,
                               client_id |-> cfg["client_id"],
                               client_secret |-> cfg["client_secret"]],
                    missing |-> ""]

\* Trakt.__init__: the attributes set before the first missing option, and
\* the error message of the missing option ("" when none is missing)
TraktInit(type, id, season_num, episode_num, cfg) ==
    LET a0 == IF type = "movie"
              THEN [type |-> "movie", imdb_id |-> id]
              ELSE IF type = "episode"
                   THEN [type |-> "episode", tvdb_id |-> id,
                         season_num |-> season_num, episode_num |-> episode_num]
                   ELSE EmptyDict
    IN  IF ~Has(cfg, "client_id")
        THEN [attrs |-> a0, missing |-> "ERROR: missing client_id"]
        ELSE IF ~Has(cfg, "client_secret")
             THEN [attrs |-> Set(a0, "client_id", cfg["client_id"]),
                   missing |-> "ERROR: missing client_secret"]
             ELSE [attrs |-> Set(Set(a0, "client_id", cfg["client_id"]),
                                 "client_secret", cfg["client_secret"]),
                   missing |-> ""]

\* lines 325-340: the constructor call of each branch
Construct(o, cfg) ==
    IF o.contentType = "movie"
    THEN TraktInit("movie", o.imdbId, "", "", cfg)
    ELSE IF o.contentType = "episode"
         THEN TraktInit("episode", o.tvdbId, o.season, o.episode, cfg)
         ELSE TraktInit("None", "None", "None", "", cfg)

\* the else branch of line 339 missing: any other content type refreshes
FirstStep_noElse(contentType) ==
    IF contentType = "trakt_authenticate" THEN "generate_device_code"
    ELSE "refresh_access_token"

\* lines 325-340: the function a content type runs first ("" for none)
FirstStep(contentType) ==
    IF contentType = "trakt_authenticate" THEN "generate_device_code"
    ELSE IF contentType \in {"trakt_refresh", "movie", "episode"}
         THEN "refresh_access_token"
         ELSE ""

Dispatch(p) ==
    /\ pc[p] = "dispatch"
    /\ IF FirstStep(opts[p].contentType) = ""
       THEN /\ Exit(p, 0, <<Console("ERROR: invalid contentType")>>)
            /\ UNCHANGED self
       ELSE LET t == Construct(opts[p], config[p])
            IN  /\ self' = [self EXCEPT ![p] = t.attrs]
                /\ IF t.missing # ""
                   THEN Exit(p, 1, <<Console(t.missing)>>)
                   ELSE Goto(p, FirstStep(opts[p].contentType), <<>>)
    /\ UNCHANGED <<disk, invocations, opts, config, frame, env>>

\* ----------------------------------------------------------- lines 156-168
GenerateDeviceCode(p) ==
    /\ pc[p] = "generate_device_code"
    /\ \E resp \in DeviceCodeResponses :
          LET call == Call("device_code", [client_id |-> self[p]["client_id"]], resp)
          IN  IF ~(Has(resp, "verification_url") /\ Has(resp, "user_code"))
              THEN /\ Exit(p, 1, <<call, Console("KeyError")>>)
                   /\ UNCHANGED frame
              ELSE IF ~Has(resp, "device_code")
                   THEN /\ Exit(p, 1, <<call, Console("Please go to"), Prompt,
                                        Console("KeyError")>>)
                        /\ UNCHANGED frame
                   ELSE /\ Goto(p, "poll_access_token",
                                <<call, Console("Please go to"), Prompt>>)
                        /\ frame' = [frame EXCEPT ![p] =
                               Set(@, "device_code", resp["device_code"])]
    /\ UNCHANGED <<disk, invocations, opts, config, self, env>>

\* ------------------------------------------------------------- lines 90-97
\* a save that updates access_token in the file instead of writing all of cfg
write_settings_perOption(d, cfg, fs) ==
    IF fs = "ok"
    THEN [exists |-> TRUE, rec |-> Set(d.rec, "access_token", cfg["access_token"])]
    ELSE IF fs = "open_fails" THEN d
         ELSE [exists |-> TRUE, rec |-> EmptyDict]

\* the settings file after write_settings() under file-system outcome fs:
\* open(path, 'w') fails and leaves the file alone, or it truncates the file
\* and config.write(f) then writes all of cfg, or nothing when it fails
write_settings(d, cfg, fs) ==
    IF fs = "ok" THEN [exists |-> TRUE, rec |-> cfg]
    ELSE IF fs = "open_fails" THEN d
         ELSE [exists |-> TRUE, rec |-> EmptyDict]

\* the second config.set left out: only access_token is stored
SetTokens_accessOnly(cfg, body) ==
    IF ~Has(body, "access_token") THEN cfg
    ELSE Set(cfg, "access_token", body["access_token"])

\* the second config.set storing response['access_token'] again
SetTokens_copied(cfg, body) ==
    IF ~Has(body, "access_token") THEN cfg
    ELSE Set(Set(cfg, "access_token", body["access_token"]),
             "refresh_token", body["access_token"])

\* lines 185-187 and 206-208: the ConfigParser after the two config.set calls,
\* the second of which is not reached when response['access_token'] raises
SetTokens(cfg, body) ==
    IF ~Has(body, "access_token") THEN cfg
    ELSE IF ~Has(body, "refresh_token")
         THEN Set(cfg, "access_token", body["access_token"])
         ELSE Set(Set(cfg, "access_token", body["access_token"]),
                  "refresh_token", body["refresh_token"])

\* lines 185-190 and 206-211: store the tokens of body, save, report, go on
SaveTokens(p, call, body, report, next) ==
    /\ config' = [config EXCEPT ![p] = SetTokens(@, body)]
    /\ IF ~(Has(body, "access_token") /\ Has(body, "refresh_token"))
       THEN /\ Exit(p, 1, <<call, Console("KeyError")>>)
            /\ UNCHANGED disk
       ELSE \E fs \in FsOutcomes :
               LET cfg == SetTokens(config[p], body)
                   w == Ev("write", fs, cfg, [before |-> disk.rec, seq |-> invocations])
               IN  /\ disk' = write_settings(disk, cfg, fs)
                   /\ IF fs # "ok"
                      THEN Exit(p, 1, <<call, w, Console("ERROR: unable to write")>>)
                      ELSE IF next = "exited"
                           THEN Exit(p, 0, <<call, w, Console(report)>>)
                           ELSE Goto(p, next, <<call, w, Console(report)>>)

\* ----------------------------------------------------------- lines 170-190
\* number of device/token requests the process has sent
Polls(p) == Cardinality({i \in 1..Len(trace[p]) :
                trace[p][i].op = "call" /\ trace[p][i].what = "device_token"})

\* what the remote answers to the next device/token request
PollResponse(p) ==
    IF Polls(p) < env[p].pending THEN PendingResponse ELSE env[p].final

\* the elif of line 181 left out, as in refresh_access_token
PollBranch_unchecked(status) ==
    IF status = 400 THEN "pending" ELSE "success"

\* lines 178-183: the branch taken on the status of the poll
PollBranch(status) ==
    IF status = 400 THEN "pending"
    ELSE IF status # 200 THEN "fatal"
         ELSE "success"

\* On "pending", line 180 calls the bound method with self passed a second
\* time: poll_access_token() takes 3 positional arguments but 4 were given,
\* a TypeError nothing catches.
PollAccessToken(p) ==
    /\ pc[p] = "poll_access_token"
    /\ LET resp == PollResponse(p)
           call == Call("device_token",
                        [code |-> frame[p]["device_code"],
                         client_id |-> self[p]["client_id"],
                         client_secret |-> self[p]["client_secret"]],
                        resp)
       IN  IF PollBranch(resp.status) = "pending"
           THEN /\ Exit(p, 1, <<call, Prompt, Console("TypeError")>>)
                /\ UNCHANGED <<disk, config>>
           ELSE IF PollBranch(resp.status) = "fatal"
                THEN /\ Exit(p, 1, <<call, Console("Something went wrong")>>)
                     /\ UNCHANGED <<disk, config>>
                ELSE SaveTokens(p, call, resp.body,
                                "Succesfully configured your Trakt.tv sync!", "exited")
    /\ UNCHANGED <<invocations, opts, self, frame, env>>

\* ----------------------------------------------------------- lines 192-211
\* lines 331-338: what follows refresh_access_token() for a content type
AfterRefresh(contentType) ==
    IF contentType \in {"movie", "episode"} THEN "sync_history" ELSE "exited"

\* the refresh token read with a fallback instead of failing
get_refresh_token_fallback(cfg) ==
    [missing |-> FALSE,
     value |-> IF Has(cfg, "refresh_token") THEN cfg["refresh_token"] ELSE <<"">>]

\* the access token sent in place of the refresh token
get_refresh_token_access(cfg) ==
    [missing |-> ~Has(cfg, "refresh_token"),
     value |-> IF Has(cfg, "access_token") THEN cfg["access_token"]
               ELSE IF Has(cfg, "refresh_token") THEN cfg["refresh_token"] ELSE <<"">>]

\* lines 141-146: the stored refresh token, or the exit when it is missing
get_refresh_token(cfg) ==
    [missing |-> ~Has(cfg, "refresh_token"),
     value |-> IF Has(cfg, "refresh_token") THEN cfg["refresh_token"] ELSE <<"">>]

RefreshAccessToken(p) ==
    /\ pc[p] = "refresh_access_token"
    /\ IF get_refresh_token(config[p]).missing
       THEN /\ Exit(p, 1, <<Console("ERROR: missing refresh_token")>>)
            /\ UNCHANGED <<disk, config>>
       ELSE \E resp \in RefreshResponses :
               SaveTokens(p,
                   Call("refresh",
                        [refresh_token |-> get_refresh_token(config[p]).value,
                         client_id |-> self[p]["client_id"],
                         client_secret |-> self[p]["client_secret"],
                         redirect_uri |-> "urn:ietf:wg:oauth:2.0:oob",
                         grant_type |-> "refresh_token"],
                        resp),
                   resp.body, "Refreshed access token succesfully!",
                   AfterRefresh(opts[p].contentType))
    /\ UNCHANGED <<invocations, opts, self, frame, env>>

\* ----------------------------------------------------------- lines 249-258
\* strftime('%Y-%m-%dT%H:%M:%S.000Z'): seconds kept, microseconds dropped
Strftime(t) ==
    <<t.year, "-", t.month, "-", t.day, "T", t.hour, ":", t.minute, ":",
      t.second, ".000Z">>

\* the access token as it was when the settings file was loaded
get_access_token_loaded(p) ==
    IF Has(trace[p][1].req, "access_token")
    THEN trace[p][1].req["access_token"]
    ELSE config[p]["access_token"]

\* lines 134-136: the access token sync_history() sends, read from the
\* ConfigParser at that moment
get_access_token(p) == config[p]["access_token"]

SyncHistory(p) ==
    /\ pc[p] = "sync_history"
    /\ IF ~Has(config[p], "access_token")
       THEN /\ Exit(p, 1, <<Console("ERROR: missing access_token")>>)
            /\ UNCHANGED frame
       ELSE \E now \in Clock :
               /\ frame' = [frame EXCEPT ![p] =
                      [access_token |-> get_access_token(p),
                       watched_at |-> Strftime(now)]]
               /\ Goto(p, IF self[p]["type"] = "movie" THEN "get_movie" ELSE "get_show",
                       <<>>)
    /\ UNCHANGED <<disk, invocations, opts, config, self, env>>

\* lines 214-218, 226-230, 238-242: the headers of a metadata lookup
LookupHeaders(p) == [trakt_api_key |-> self[p]["client_id"]]

\* ----------------------------------------------------------- lines 213-223
GetMovie(p) ==
    /\ pc[p] = "get_movie"
    /\ \E resp \in MovieSearchResponses :
          LET call == Call("search_movie",
                           [imdb |-> self[p]["imdb_id"], headers |-> LookupHeaders(p)],
                           resp)
          IN  IF Len(resp) = 0
              THEN /\ Exit(p, 1, <<call, Console("IndexError")>>)
                   /\ UNCHANGED frame
              ELSE /\ frame' = [frame EXCEPT ![p] = Set(@, "movie", resp[1]["movie"])]
                   /\ Goto(p, "post_history", <<call>>)
    /\ UNCHANGED <<disk, invocations, opts, config, self, env>>

\* ----------------------------------------------------------- lines 225-235
GetShow(p) ==
    /\ pc[p] = "get_show"
    /\ \E resp \in ShowSearchResponses :
          LET call == Call("search_show",
                           [tvdb |-> self[p]["tvdb_id"], headers |-> LookupHeaders(p)],
                           resp)
          IN  IF Len(resp) = 0
              THEN /\ Exit(p, 1, <<call, Console("IndexError")>>)
                   /\ UNCHANGED frame
              ELSE /\ frame' = [frame EXCEPT ![p] = Set(@, "show", resp[1]["show"])]
                   /\ Goto(p, "get_episode", <<call>>)
    /\ UNCHANGED <<disk, invocations, opts, config, self, env>>

\* ----------------------------------------------------------- lines 237-247
\* line 244: the path of the episode lookup
EpisodePath(show, season_num, episode_num) ==
    [slug |-> show["ids"]["slug"], season |-> season_num, episode |-> episode_num]

GetEpisode(p) ==
    /\ pc[p] = "get_episode"
    /\ \E resp \in EpisodeResponses :
          /\ frame' = [frame EXCEPT ![p] = Set(@, "episode", resp)]
          /\ Goto(p, "post_history",
                  <<Call("episode",
                         [path |-> EpisodePath(frame[p]["show"], self[p]["season_num"],
                                               self[p]["episode_num"]),
                          headers |-> LookupHeaders(p)],
                         resp)>>)
    /\ UNCHANGED <<disk, invocations, opts, config, self, env>>

\* ----------------------------------------------------------- lines 260-294
\* the movie payload with the trakt id copied into the tmdb id
MoviePayload_copied(movie, watched_at) ==
    [movies |-> <<
        [watched_at |-> watched_at,
         title |-> movie["title"],
         year |-> movie["year"],
         ids |-> [trakt |-> movie["ids"]["trakt"],
                  slug |-> movie["ids"]["slug"],
                  imdb |-> movie["ids"]["imdb"],
                  tmdb |-> movie["ids"]["trakt"]]] >>]

\* lines 262-276: the payload of a movie (defined when MovieKeys holds)
MoviePayload(movie, watched_at) ==
    [movies |-> <<
        [watched_at |-> watched_at,
         title |-> movie["title"],
         year |-> movie["year"],
         ids |-> [trakt |-> movie["ids"]["trakt"],
                  slug |-> movie["ids"]["slug"],
                  imdb |-> movie["ids"]["imdb"],
                  tmdb |-> movie["ids"]["tmdb"]]] >>]

\* the keys lines 266-272 read: a missing one is a KeyError
MovieKeys(movie) ==
    /\ {"title", "year", "ids"} \subseteq DOMAIN movie
    /\ {"trakt", "slug", "imdb", "tmdb"} \subseteq DOMAIN movie["ids"]

\* the episode payload built like the movie payload, title included
EpisodePayload_titled(episode, watched_at) ==
    [episodes |-> <<
        [watched_at |-> watched_at,
         title |-> episode["title"],
         ids |-> [trakt |-> episode["ids"]["trakt"],
                  tvdb |-> episode["ids"]["tvdb"],
                  imdb |-> episode["ids"]["imdb"],
                  tmdb |-> episode["ids"]["tmdb"]]] >>]

\* lines 280-292: the payload of an episode (defined when EpisodeKeys holds)
EpisodePayload(episode, watched_at) ==
    [episodes |-> <<
        [watched_at |-> watched_at,
         ids |-> [trakt |-> episode["ids"]["trakt"],
                  tvdb |-> episode["ids"]["tvdb"],
                  imdb |-> episode["ids"]["imdb"],
                  tmdb |-> episode["ids"]["tmdb"]]] >>]

\* the keys lines 285-288 read
EpisodeKeys(episode) ==
    /\ "ids" \in DOMAIN episode
    /\ {"trakt", "tvdb", "imdb", "tmdb"} \subseteq DOMAIN episode["ids"]

\* lines 253-258: the headers of the history submission
HistoryHeaders(p) ==
    [authorization |-> <<"Bearer", frame[p]["access_token"]>>,
     trakt_api_key |-> self[p]["client_id"]]

\* the submission repeated after a failure status
AfterHistory_retry(status) ==
    IF status = 401 THEN "post_history" ELSE "exited"

\* line 294: the response is not looked at, the script ends
AfterHistory(status) == "exited"

PostHistory(p) ==
    /\ pc[p] = "post_history"
    /\ LET movie == self[p]["type"] = "movie"
           keys == IF movie THEN MovieKeys(frame[p]["movie"])
                   ELSE EpisodeKeys(frame[p]["episode"])
       IN  IF ~keys
           THEN Exit(p, 1, <<Console("KeyError")>>)
           ELSE \E status \in HistoryStatuses :
                   LET call == Call("history",
                                    [payload |-> IF movie
                                         THEN MoviePayload(frame[p]["movie"],
                                                           frame[p]["watched_at"])
                                         ELSE EpisodePayload(frame[p]["episode"],
                                                             frame[p]["watched_at"]),
                                     headers |-> HistoryHeaders(p)],
                                    [status |-> status])
                   IN  IF AfterHistory(status) = "exited"
                       THEN Exit(p, 0, <<call>>)
                       ELSE Goto(p, AfterHistory(status), <<call>>)
    /\ UNCHANGED <<disk, invocations, opts, config, self, frame, env>>

\* ------------------------------------------------------------ specification
\* invocations run strictly one after another: no other process has started
Alone(p) == \A q \in Procs \ {p} : pc[q] = "idle"

StartAlone(p) == Alone(p) /\ Start(p)

Next ==
    \E p \in Procs :
        \/ StartAlone(p)
        \/ CheckUser(p)
        \/ Dispatch(p)
        \/ GenerateDeviceCode(p)
        \/ PollAccessToken(p)
        \/ RefreshAccessToken(p)
        \/ SyncHistory(p)
        \/ GetMovie(p)
        \/ GetShow(p)
        \/ GetEpisode(p)
        \/ PostHistory(p)

Spec == Init /\ [][Next]_vars

\* ------------------------------------------- overlapping invocations
\* Tautulli runs one script process per notification and nothing locks the
\* settings file: an invocation may start while another one is running.
\* The invocations that save tokens are the ones followed here.
TokenTypes == {"trakt_authenticate", "trakt_refresh"}

TokenOptions == {"access_token", "refresh_token"}

\* settings files of a configured installation: client_id, client_secret
\* and user_ids are set, either token may or may not be stored yet
ConfiguredFiles ==
    { Set(Restrict(TraktOptions, {"client_id", "client_secret"} \cup K),
          "user_ids", <<"1", ",", "2">>) : K \in SUBSET TokenOptions }

InitConc ==
    /\ disk \in { [exists |-> TRUE, rec |-> f] : f \in ConfiguredFiles }
    /\ invocations = 0
    /\ pc = [p \in Procs |-> "idle"]
    /\ opts = [p \in Procs |-> EmptyDict]
    /\ config = [p \in Procs |-> EmptyDict]
    /\ self = [p \in Procs |-> EmptyDict]
    /\ frame = [p \in Procs |-> EmptyDict]
    /\ env = [p \in Procs |-> EmptyDict]
    /\ trace = [p \in Procs |-> <<>>]
    /\ exitcode = [p \in Procs |-> -1]

\* each process is one invocation, started at any moment
StartConc(p) == pc[p] = "idle" /\ Invoke(p, {1}, TokenTypes)

NextConc ==
    \E p \in Procs :
        \/ StartConc(p)
        \/ CheckUser(p)
        \/ Dispatch(p)
        \/ GenerateDeviceCode(p)
        \/ PollAccessToken(p)
        \/ RefreshAccessToken(p)

SpecConc == InitConc /\ [][NextConc]_vars

\* ------------------------------------------------------------- observations
\* the invocation of process p got past the load of the settings file
Started(p) == Len(trace[p]) > 0 /\ trace[p][1].op = "load"

\* the settings as process p loaded them
Loaded(p) == trace[p][1].req

IsCall(p, i, api) == trace[p][i].op = "call" /\ trace[p][i].what = api

CallIdx(p) == {i \in 1..Len(trace[p]) : trace[p][i].op = "call"}

WriteIdx(p) == {i \in 1..Len(trace[p]) : trace[p][i].op = "write"}

NoCalls(p) == CallIdx(p) = {}

NoWrites(p) == WriteIdx(p) = {}

Exited(p) == pc[p] = "exited"

\* uid is one of the comma-separated entries of the user_ids value v
IsEntry(uid, v) ==
    \E i \in 1..Len(Split(v, ",")) : Split(v, ",")[i] = Str(uid)

\* the user of process p may sync: an entry of the allow-list, or the sentinel
AllowedUser(p) ==
    /\ Started(p)
    /\ Has(Loaded(p), "user_ids")
    /\ (IsEntry(opts[p].userId, Loaded(p)["user_ids"]) \/ opts[p].userId = -1)

HasPair(d) == Has(d, "access_token") /\ Has(d, "refresh_token")

SamePair(d, e) ==
    /\ HasPair(d) /\ HasPair(e)
    /\ d["access_token"] = e["access_token"]
    /\ d["refresh_token"] = e["refresh_token"]

\* ------------------------------------------------------------------ claims
\* C1: with user_ids configured, an invocation whose user id is neither an
\* entry of the allow-list nor -1 issues no remote call, writes nothing to
\* the settings file and exits with code 0, whatever the content type is.
C1_RejectedUserIsNoOp ==
    \A p \in Procs :
        ( /\ Started(p)
          /\ Has(Loaded(p), "user_ids")
          /\ ~IsEntry(opts[p].userId, Loaded(p)["user_ids"])
          /\ opts[p].userId # -1 )
        => /\ NoCalls(p) /\ NoWrites(p)
           /\ disk.rec = Loaded(p)
           /\ pc[p] \in {"sync_for_user", "exited"}
           /\ Exited(p) => exitcode[p] = 0

C1_Witness ==
    \E p \in Procs :
        /\ Started(p) /\ Exited(p) /\ exitcode[p] = 0
        /\ opts[p].userId = 2 /\ opts[p].contentType = "movie"
        /\ Loaded(p)["user_ids"] = <<"1", ",", " ", "2">>
        /\ NoCalls(p)

\* C2: an authenticate() whose polls are answered "not yet authorized" one or
\* more times and then with a success carrying both tokens saves the settings
\* exactly once, after the success response, with both tokens of that
\* response, and the file holds them when the save succeeds.
C2_PendingThenSuccessPersists ==
    \A p \in Procs :
        ( /\ Exited(p)
          /\ opts[p].contentType = "trakt_authenticate"
          /\ Polls(p) >= 1
          /\ env[p].pending >= 1
          /\ env[p].final.status = 200
          /\ HasPair(env[p].final.body) )
        => /\ Cardinality(WriteIdx(p)) = 1
           /\ \A w \in WriteIdx(p) :
                 /\ w > 1
                 /\ IsCall(p, w - 1, "device_token")
                 /\ trace[p][w - 1].resp = env[p].final
                 /\ SamePair(trace[p][w].req, env[p].final.body)
                 /\ (trace[p][w].what = "ok") => SamePair(disk.rec, env[p].final.body)

\* C3: after the refresh exchange returns a body with both tokens, the
\* in-memory settings hold exactly that pair whatever pair was loaded, and so
\* does the settings file once the save has succeeded; when the loaded pair
\* already was the pair of the response (a second run with the same
\* response), the file is what it was after the first run.
C3_RefreshStoresResponsePair ==
    \A p \in Procs : \A i \in CallIdx(p) :
        (IsCall(p, i, "refresh") /\ HasPair(trace[p][i].resp.body))
        => /\ SamePair(config[p], trace[p][i].resp.body)
           /\ i + 1 \in WriteIdx(p)
           /\ SamePair(trace[p][i + 1].req, trace[p][i].resp.body)
           /\ (trace[p][i + 1].what = "ok")
                 => /\ SamePair(disk.rec, trace[p][i].resp.body)
                    /\ SamePair(Loaded(p), trace[p][i].resp.body)
                          => disk.rec = Loaded(p)

C3_Witness ==
    \E p \in Procs : \E i \in CallIdx(p) :
        /\ invocations = 2
        /\ IsCall(p, i, "refresh")
        /\ trace[p][i].resp.body = Pair(2)
        /\ SamePair(Loaded(p), Pair(2))
        /\ i + 1 \in WriteIdx(p) /\ trace[p][i + 1].what = "ok"
        /\ SamePair(disk.rec, Pair(2))

\* C4: for an allowed user and each of trakt_authenticate, trakt_refresh,
\* movie and episode, settings without client_id end the invocation with
\* exit code 1 and the configuration error, with no remote call and no write.
C4_MissingClientIdIsFatal ==
    \A p \in Procs :
        ( /\ AllowedUser(p)
          /\ opts[p].contentType \in {"trakt_authenticate", "trakt_refresh",
                                      "movie", "episode"}
          /\ ~Has(Loaded(p), "client_id") )
        => /\ NoCalls(p) /\ NoWrites(p)
           /\ disk.rec = Loaded(p)
           /\ pc[p] \in {"sync_for_user", "dispatch", "exited"}
           /\ Exited(p) => /\ exitcode[p] = 1
                           /\ trace[p][Len(trace[p])] =
                                  Console("ERROR: missing client_id")

C4_Witness ==
    \E p \in Procs :
        /\ AllowedUser(p) /\ Exited(p) /\ exitcode[p] = 1
        /\ opts[p].contentType = "episode"
        /\ ~Has(Loaded(p), "client_id")
        /\ Has(Loaded(p), "client_secret") /\ HasPair(Loaded(p))

\* C5: every history submission of a movie invocation carries a payload with
\* only a movies list of exactly one entry, whose title, year and ids (trakt,
\* slug, imdb, tmdb) are those of the movie the metadata lookup returned; and
\* every lookup result that has these fields is submitted.
C5_MoviePayloadMatchesLookup ==
    \A p \in Procs :
        (Started(p) /\ opts[p].contentType = "movie")
        => /\ \A i \in CallIdx(p) :
                 IsCall(p, i, "history")
                 => /\ i > 1 /\ IsCall(p, i - 1, "search_movie")
                    /\ LET m == trace[p][i - 1].resp[1]["movie"]
                           pl == trace[p][i].req.payload
                       IN  /\ DOMAIN pl = {"movies"}
                           /\ Len(pl.movies) = 1
                           /\ DOMAIN pl.movies[1] = {"watched_at", "title", "year", "ids"}
                           /\ pl.movies[1].title = m["title"]
                           /\ pl.movies[1].year = m["year"]
                           /\ DOMAIN pl.movies[1].ids = {"trakt", "slug", "imdb", "tmdb"}
                           /\ \A k \in {"trakt", "slug", "imdb", "tmdb"} :
                                 pl.movies[1].ids[k] = m["ids"][k]
           /\ \A i \in CallIdx(p) :
                 ( /\ IsCall(p, i, "search_movie")
                   /\ Len(trace[p][i].resp) > 0
                   /\ MovieKeys(trace[p][i].resp[1]["movie"])
                   /\ Exited(p) )
                 => /\ i + 1 \in CallIdx(p)
                    /\ IsCall(p, i + 1, "history")

C5_Witness ==
    \E p \in Procs : \E i \in CallIdx(p) :
        /\ opts[p].contentType = "movie"
        /\ IsCall(p, i, "history")
        /\ trace[p][i].req.payload.movies[1].ids =
               [trakt |-> 5, slug |-> "y", imdb |-> "ttY", tmdb |-> 6]
        /\ trace[p][i].req.payload.movies[1].title = "Y"

\* the remote operations of process p, in the order they were issued
Apis(p) ==
    LET c == SelectSeq(trace[p], LAMBDA e : e.op = "call")
    IN  [i \in 1..Len(c) |-> c[i].what]

\* C6: an episode invocation that submits history has issued, in this order
\* and once each, the refresh exchange, the show lookup, the episode lookup
\* keyed by the slug of the returned show and the season and episode numbers,
\* and the history submission; the payload has only an episodes list of
\* exactly one entry with the watched_at stamp and the ids (trakt, tvdb, imdb,
\* tmdb) of the looked-up episode, and no title or year.
C6_EpisodeLookupsThenPayload ==
    \A p \in Procs : \A i \in CallIdx(p) :
        (IsCall(p, i, "history") /\ opts[p].contentType = "episode")
        => /\ Apis(p) = <<"refresh", "search_show", "episode", "history">>
           /\ i > 2
           /\ IsCall(p, i - 2, "search_show") /\ IsCall(p, i - 1, "episode")
           /\ trace[p][i - 2].req.tvdb = opts[p].tvdbId
           /\ trace[p][i - 1].req.path =
                  [slug |-> trace[p][i - 2].resp[1]["show"]["ids"]["slug"],
                   season |-> opts[p].season, episode |-> opts[p].episode]
           /\ LET e == trace[p][i - 1].resp
                  pl == trace[p][i].req.payload
              IN  /\ DOMAIN pl = {"episodes"}
                  /\ Len(pl.episodes) = 1
                  /\ DOMAIN pl.episodes[1] = {"watched_at", "ids"}
                  /\ DOMAIN pl.episodes[1].ids = {"trakt", "tvdb", "imdb", "tmdb"}
                  /\ \A k \in {"trakt", "tvdb", "imdb", "tmdb"} :
                        pl.episodes[1].ids[k] = e["ids"][k]

C6_Witness ==
    \E p \in Procs : \E i \in CallIdx(p) :
        /\ opts[p].contentType = "episode"
        /\ IsCall(p, i, "history")
        /\ trace[p][i - 1].req.path.slug = "show-b"
        /\ trace[p][i].req.payload.episodes[1].ids =
               [trakt |-> 21, tvdb |-> 22, imdb |-> "ttF", tmdb |-> 24]

\* the response number of a token the tool stored (0: put by the operator)
TokenNo(t) == t[2]

\* C7: every save carries the access_token and the refresh_token of one and
\* the same response, the one received just before it; and whatever sequence
\* of authenticate and refresh operations ran, completed or interrupted, a
\* settings file holding an access_token obtained by the tool holds the
\* refresh_token of the same response.
C7_TokensWrittenTogether ==
    /\ \A p \in Procs : \A w \in WriteIdx(p) :
          /\ w > 1
          /\ trace[p][w - 1].op = "call"
          /\ trace[p][w - 1].what \in {"device_token", "refresh"}
          /\ SamePair(trace[p][w].req, trace[p][w - 1].resp.body)
          /\ \E k \in 1..MaxResp : SamePair(trace[p][w].req, Pair(k))
    /\ (Has(disk.rec, "access_token") /\ TokenNo(disk.rec["access_token"]) >= 1)
          => /\ Has(disk.rec, "refresh_token")
             /\ disk.rec["refresh_token"] = RT(TokenNo(disk.rec["access_token"]))

\* a refresh cut short after access_token was set in memory, following an
\* invocation that stored the pair of another response
C7_Witness ==
    \E p \in Procs : \E i \in CallIdx(p) :
        /\ invocations = 2
        /\ Exited(p) /\ exitcode[p] = 1
        /\ IsCall(p, i, "refresh")
        /\ trace[p][i].resp.body = [access_token |-> AT(2)]
        /\ config[p]["access_token"] = AT(2)
        /\ SamePair(disk.rec, Pair(1))

\* C8: in a movie or episode invocation, every metadata lookup and history
\* submission comes after the refresh exchange and the successful save of
\* the pair it returned, the Bearer token of the history submission is the
\* access_token of that exchange; and in any invocation no remote call is
\* issued after a token response unless its tokens were saved first.
C8_TokensSavedBeforeUse ==
    \A p \in Procs : \A i \in CallIdx(p) :
        /\ trace[p][i].what \in {"search_movie", "search_show", "episode", "history"}
              => /\ IsCall(p, 2, "refresh")
                 /\ HasPair(trace[p][2].resp.body)
                 /\ trace[p][3].op = "write" /\ trace[p][3].what = "ok"
                 /\ SamePair(trace[p][3].req, trace[p][2].resp.body)
                 /\ i > 3
                 /\ IsCall(p, i, "history")
                       => trace[p][i].req.headers.authorization =
                              <<"Bearer", trace[p][2].resp.body["access_token"]>>
        /\ \A j \in CallIdx(p) :
              ( /\ j < i
                /\ trace[p][j].what \in {"device_token", "refresh"}
                /\ Has(trace[p][j].resp.body, "access_token") )
              => /\ j + 1 \in WriteIdx(p)
                 /\ trace[p][j + 1].what = "ok"
                 /\ SamePair(trace[p][j + 1].req, trace[p][j].resp.body)

\* a history submission by an invocation that loaded one pair and was given
\* another by its refresh exchange
C8_Witness ==
    \E p \in Procs : \E i \in CallIdx(p) :
        /\ IsCall(p, i, "history")
        /\ SamePair(Loaded(p), Pair(0))
        /\ trace[p][i].req.headers.authorization = <<"Bearer", AT(2)>>
        /\ SamePair(disk.rec, Pair(2))

\* C9: a device-token poll answered with a status other than 200 and 400 is
\* the last remote call of the invocation, which ends with exit code 1
\* without any save: the settings file is as it was loaded.
C9_FatalPollStatus ==
    \A p \in Procs : \A i \in CallIdx(p) :
        ( /\ IsCall(p, i, "device_token")
          /\ trace[p][i].resp.status \notin {200, 400} )
        => /\ Exited(p) /\ exitcode[p] = 1
           /\ NoWrites(p)
           /\ disk.rec = Loaded(p)
           /\ config[p] = Loaded(p)
           /\ \A j \in CallIdx(p) : j <= i
           /\ Apis(p) = <<"device_code", "device_token">>

\* a poll answered with a status that is neither, although it carries tokens
C9_Witness ==
    \E p \in Procs : \E i \in CallIdx(p) :
        /\ IsCall(p, i, "device_token")
        /\ trace[p][i].resp = [status |-> 201, body |-> Pair(1)]
        /\ Exited(p) /\ exitcode[p] = 1

\* the messages of the configuration errors and of the fatal poll status
FatalMessages ==
    { "ERROR: not found", "ERROR: missing user_ids", "ERROR: missing client_id",
      "ERROR: missing client_secret", "ERROR: missing access_token",
      "ERROR: missing refresh_token", "ERROR: unable to write",
      "Something went wrong" }

\* C10: for an allowed user, a content type other than trakt_authenticate,
\* trakt_refresh, movie and episode ends the invocation with exit code 0,
\* without remote call or save, after the invalid-contentType message; and an
\* invocation that ends on a configuration error or on the fatal poll status
\* has exit code 1.
C10_ExitCodes ==
    \A p \in Procs :
        /\ ( /\ AllowedUser(p)
             /\ opts[p].contentType \notin {"trakt_authenticate", "trakt_refresh",
                                            "movie", "episode"} )
           => /\ NoCalls(p) /\ NoWrites(p)
              /\ disk.rec = Loaded(p)
              /\ pc[p] \in {"sync_for_user", "dispatch", "exited"}
              /\ Exited(p) => /\ exitcode[p] = 0
                              /\ trace[p][Len(trace[p])] =
                                     Console("ERROR: invalid contentType")
        /\ ( /\ Exited(p)
             /\ trace[p][Len(trace[p])].op = "print"
             /\ trace[p][Len(trace[p])].what \in FatalMessages )
           => exitcode[p] = 1

C10_Witness ==
    \E p \in Procs :
        /\ AllowedUser(p) /\ Exited(p) /\ exitcode[p] = 0
        /\ opts[p].contentType = "music"
        /\ ~Has(Loaded(p), "client_id")
        /\ trace[p][Len(trace[p])] = Console("ERROR: invalid contentType")

\* a bootstrap: client_id, client_secret and user_ids configured, no token
\* stored, trakt_authenticate run for the sentinel, the first poll answered
\* with a success that carries both tokens
Bootstrap(p) ==
    /\ Started(p)
    /\ opts[p].userId = -1 /\ opts[p].contentType = "trakt_authenticate"
    /\ {"user_ids", "client_id", "client_secret"} \subseteq DOMAIN Loaded(p)
    /\ ~Has(Loaded(p), "access_token") /\ ~Has(Loaded(p), "refresh_token")
    /\ env[p].pending = 0
    /\ env[p].final.status = 200 /\ HasPair(env[p].final.body)

\* C11: a bootstrap is Unauthenticated (no token, no remote call) until the
\* device code is requested, AwaitingUserAuthorization (device code issued,
\* operator confirmation given, no token) until the poll, and Authenticated
\* (both tokens of the success response in the settings file, exit code 0)
\* after it; it ends otherwise only when the device-code answer is incomplete
\* or the save fails, never on the missing tokens.
C11_BootstrapReachesAuthenticated ==
    \A p \in Procs :
        Bootstrap(p)
        => /\ pc[p] \in {"sync_for_user", "dispatch", "generate_device_code",
                         "poll_access_token", "exited"}
           /\ pc[p] \in {"sync_for_user", "dispatch", "generate_device_code"}
                 => /\ NoCalls(p)
                    /\ config[p] = Loaded(p) /\ disk.rec = Loaded(p)
           /\ pc[p] = "poll_access_token"
                 => /\ Apis(p) = <<"device_code">>
                    /\ trace[p][Len(trace[p])] = Prompt
                    /\ config[p] = Loaded(p) /\ disk.rec = Loaded(p)
           /\ Exited(p)
                 => \/ /\ exitcode[p] = 1
                       /\ Apis(p) = <<"device_code">>
                       /\ ~Has(trace[p][2].resp, "device_code")
                    \/ /\ exitcode[p] = 1
                       /\ \E w \in WriteIdx(p) : trace[p][w].what # "ok"
                    \/ /\ exitcode[p] = 0
                       /\ Apis(p) = <<"device_code", "device_token">>
                       /\ SamePair(config[p], env[p].final.body)
                       /\ SamePair(disk.rec, env[p].final.body)
                       /\ trace[p][Len(trace[p])] =
                              Console("Succesfully configured your Trakt.tv sync!")

C11_Witness ==
    \E p \in Procs :
        /\ Bootstrap(p) /\ Exited(p) /\ exitcode[p] = 0
        /\ SamePair(disk.rec, Pair(1))
        /\ disk.rec["client_id"] = "cid"

\* the number of requests process p sent to a remote operation
Count(p, api) == Cardinality({i \in CallIdx(p) : trace[p][i].what = api})

\* C12: in one invocation the device-code request, the refresh exchange,
\* each metadata lookup and the history submission are issued at most once
\* each, whatever the answers; a history submission answered with a failure
\* status is the last step of the invocation.
C12_NoRepeatedRemoteOperation ==
    \A p \in Procs :
        /\ \A api \in {"device_code", "refresh", "search_movie", "search_show",
                       "episode", "history"} : Count(p, api) <= 1
        /\ \A i \in CallIdx(p) :
              IsCall(p, i, "history")
              => /\ i = Len(trace[p])
                 /\ Exited(p)

C12_Witness ==
    \E p \in Procs :
        /\ Exited(p)
        /\ Apis(p) = <<"refresh", "search_show", "episode", "history">>
        /\ trace[p][Len(trace[p])].resp.status = 401

C13_FirstPollOrdering ==
    \A p \in Procs :
        (Started(p) /\ opts[p].contentType = "trakt_authenticate")
        => /\ Count(p, "device_code") <= 1
           /\ \A i \in CallIdx(p) :
                 IsCall(p, i, "device_token")
                 => /\ i > 2
                    /\ trace[p][i - 1] = Prompt
                    /\ IsCall(p, 2, "device_code")
                    /\ trace[p][i].req.code = trace[p][2].resp["device_code"]

\* process p printed one of the two success messages
ReportedSuccess(p) ==
    \E i \in 1..Len(trace[p]) :
        /\ trace[p][i].op = "print"
        /\ trace[p][i].what \in {"Succesfully configured your Trakt.tv sync!",
                                 "Refreshed access token succesfully!"}

\* C14: when the save of the tokens fails, the invocation ends with exit code
\* 1 right after it, without reporting success and without any lookup or
\* history submission, and the settings file is what it was before the save.
C14_FailedSaveLeavesFile ==
    \A p \in Procs : \A w \in WriteIdx(p) :
        (trace[p][w].what # "ok")
        => /\ Exited(p) /\ exitcode[p] = 1
           /\ ~ReportedSuccess(p)
           /\ \A i \in CallIdx(p) : i < w
           /\ disk.rec = trace[p][w].resp.before

\* the part of C14 that does not depend on how the save failed
C14_FailedSaveEndsInvocation ==
    \A p \in Procs : \A w \in WriteIdx(p) :
        (trace[p][w].what # "ok")
        => /\ Exited(p) /\ exitcode[p] = 1
           /\ ~ReportedSuccess(p)
           /\ \A i \in CallIdx(p) : i < w
           /\ (trace[p][w].what = "open_fails") => disk.rec = trace[p][w].resp.before

\* C15: for an allowed user and trakt_refresh, movie or episode, settings
\* without refresh_token end the invocation with exit code 1 with no remote
\* call and no save, whether or not an access_token is stored.
C15_MissingRefreshTokenIsFatal ==
    \A p \in Procs :
        ( /\ AllowedUser(p)
          /\ opts[p].contentType \in {"trakt_refresh", "movie", "episode"}
          /\ ~Has(Loaded(p), "refresh_token") )
        => /\ NoCalls(p) /\ NoWrites(p)
           /\ disk.rec = Loaded(p)
           /\ pc[p] \in {"sync_for_user", "dispatch", "refresh_access_token", "exited"}
           /\ Exited(p) => exitcode[p] = 1

C15_Witness ==
    \E p \in Procs :
        /\ AllowedUser(p) /\ Exited(p) /\ exitcode[p] = 1
        /\ opts[p].contentType = "movie"
        /\ ~Has(Loaded(p), "refresh_token")
        /\ Has(Loaded(p), "access_token")
        /\ trace[p][Len(trace[p])] = Console("ERROR: missing refresh_token")

\* the options the operator sets
OperatorOptions == {"user_ids", "client_id", "client_secret"}

\* C17: after an invocation has ended, whichever way, the settings file
\* holds user_ids, client_id and client_secret exactly as the invocation
\* loaded them.
C17_OperatorOptionsKept ==
    \A p \in Procs :
        (Started(p) /\ Exited(p))
        => \A k \in OperatorOptions :
              /\ Has(disk.rec, k) <=> Has(Loaded(p), k)
              /\ Has(Loaded(p), k) => disk.rec[k] = Loaded(p)[k]

\* the part of C17 that holds: a save that succeeds, or fails at the open,
\* changes nothing but the two tokens
C17_SuccessfulSaveKeepsOptions ==
    \A p \in Procs :
        ( /\ Started(p)
          /\ \A w \in WriteIdx(p) : trace[p][w].what # "write_fails" )
        => \A k \in OperatorOptions :
              /\ Has(disk.rec, k) <=> Has(Loaded(p), k)
              /\ Has(Loaded(p), k) => disk.rec[k] = Loaded(p)[k]

\* C18: settings without user_ids end every invocation at the allow-list
\* lookup with exit code 1, no remote call and no save, for every user id,
\* the sentinel -1 included.
C18_MissingUserIdsIsFatal ==
    \A p \in Procs :
        (Started(p) /\ ~Has(Loaded(p), "user_ids"))
        => /\ NoCalls(p) /\ NoWrites(p)
           /\ disk.rec = Loaded(p)
           /\ pc[p] \in {"sync_for_user", "exited"}
           /\ Exited(p) => /\ exitcode[p] = 1
                           /\ trace[p][Len(trace[p])] =
                                  Console("ERROR: missing user_ids")

C18_Witness ==
    \E p \in Procs :
        /\ Started(p) /\ Exited(p) /\ exitcode[p] = 1
        /\ ~Has(Loaded(p), "user_ids")
        /\ opts[p].userId = -1 /\ opts[p].contentType = "trakt_authenticate"
        /\ Has(Loaded(p), "client_id") /\ Has(Loaded(p), "client_secret")

\* process p exchanged a refresh_token that was no longer the one in the
\* settings file when p saved the answer
Stale(p) ==
    \E w \in WriteIdx(p) :
        /\ w > 1 /\ IsCall(p, w - 1, "refresh")
        /\ LET before == trace[p][w].resp.before
           IN  \/ ~Has(before, "refresh_token")
               \/ before["refresh_token"] # trace[p][w - 1].req["refresh_token"]

\* another invocation was running when p loaded the settings, or one started
\* between p's load and p's save
Overlapped(p) ==
    \/ trace[p][1].resp.others # {}
    \/ \E w \in WriteIdx(p) : trace[p][w].resp.seq > trace[p][1].resp.seq

\* C16: an invocation exchanges a refresh_token that is no longer the
\* persisted one only when it overlaps another invocation; invocations run
\* strictly one after another always send the persisted refresh_token.
C16_StaleTokenOnlyWhenOverlapped ==
    \A p \in Procs : (Started(p) /\ Stale(p)) => Overlapped(p)

\* the lost update: q persisted a pair after p's load, p sent the
\* refresh_token it had loaded and p's save replaced q's pair
C16_Witness ==
    \E p \in Procs : \E q \in Procs \ {p} :
        \E w \in WriteIdx(p) : \E v \in WriteIdx(q) :
            /\ Started(p) /\ Started(q)
            /\ IsCall(p, w - 1, "refresh")
            /\ trace[p][w].what = "ok" /\ trace[q][v].what = "ok"
            /\ trace[p][w - 1].req["refresh_token"] = Loaded(p)["refresh_token"]
            /\ SamePair(trace[p][w].resp.before, trace[q][v].req)
            /\ ~SamePair(trace[q][v].req, Loaded(p))
            /\ ~SamePair(trace[p][w].req, trace[q][v].req)
            /\ disk.rec = trace[p][w].req

\* the tokens a settings record holds
Tokens(d) == Restrict(d, DOMAIN d \cap TokenOptions)

\* C19: under any interleaving of two invocations, a settings file that
\* holds a token holds either the tokens the operator put there, as every
\* invocation loaded them, or the access_token and the refresh_token of one
\* and the same response; never the access_token of one response with the
\* refresh_token of another.
C19_NoMixedPair ==
    \A p \in Procs :
        (Started(p) /\ DOMAIN Tokens(disk.rec) # {})
        => \/ /\ \A k \in DOMAIN Tokens(disk.rec) : TokenNo(disk.rec[k]) = 0
              /\ Tokens(disk.rec) = Tokens(Loaded(p))
           \/ \E k \in 1..MaxResp : Tokens(disk.rec) = Pair(k)

\* an authentication and a refresh overlap, both save, and the file holds
\* the whole pair of the one that saved last
C19_Witness ==
    \E p \in Procs : \E q \in Procs \ {p} :
        \E w \in WriteIdx(p) : \E v \in WriteIdx(q) :
            /\ opts[p].contentType = "trakt_authenticate"
            /\ opts[q].contentType = "trakt_refresh"
            /\ trace[q][1].resp.others = {p}
            /\ trace[p][w].what = "ok" /\ trace[q][v].what = "ok"
            /\ SamePair(trace[p][w].req, Pair(1))
            /\ SamePair(trace[q][v].req, Pair(2))
            /\ SamePair(trace[q][v].resp.before, Pair(1))
            /\ Tokens(disk.rec) = Pair(2)

====
